---- MODULE Spec2Model ----
(***************************************************************************)
(* Session state machine of the chess companion (src/src/App.tsx).         *)
(*                                                                         *)
(* The React component App keeps the session in useState cells.  Every     *)
(* event handler runs against the values of the last render, its state     *)
(* updates are committed together, and the auto-move effect                *)
(* (App.tsx 29-60) runs right after the commit when one of its             *)
(* dependencies [game, moveHistory, autoColor, isAnalyzing] changed.  An   *)
(* action below is one handler together with the effect run it causes.     *)
(* The only suspension point is the await of getBestMoveOnline: a request  *)
(* that was issued and has not resolved is an element of inflight, holding *)
(* the game object its closure captured.                                   *)
(*                                                                         *)
(* chess.js is an external library.  It is replaced by a small board game  *)
(* that honours the part of its contract App.tsx relies on: a side to      *)
(* move that alternates, moves({square}) listing the destinations of the   *)
(* piece of the side to move, move() applying one legal move, a half-move  *)
(* clock that draws the game, and a mate predicate.                        *)
(***************************************************************************)
EXTENDS Integers, Sequences, FiniteSets, Bags, TLC

\* ---- bounds of the model ----
NSq == 3              \* squares of the board, in one file 1..NSq
HalfMoveLimit == 3    \* half-move clock value at which the game is drawn
MaxOutstanding == 2   \* cap on simultaneously unresolved oracle requests
MaxNavSteps == 2      \* longest navigation round trip examined

NULL == "null"
NoSquare == 0
EMPTY == "-"
Squares == 1..NSq
Other(c) == IF c = "w" THEN "b" ELSE "w"

\* ---- rules engine (stand-in for chess.js) ----

\* new Chess(): white stands on the first square, black on the last.
NewChess ==
  [board |-> [s \in Squares |-> IF s = 1 THEN "w" ELSE IF s = NSq THEN "b" ELSE EMPTY],
   turn |-> "w", half |-> 0]

\* game.fen(): the serialised position kept in positions / currentPosition.
Fen(g) == <<g.board, g.turn, g.half>>

\* new Chess(fen)
Chess(f) == [board |-> f[1], turn |-> f[2], half |-> f[3]]

Turn(g) == g.turn

\* game.get(square): the colour of the piece on the square, or EMPTY.
Get(g, sq) == g.board[sq]

\* game.moves({square, verbose}) mapped to move.to: destinations of the piece
\* on sq, which must belong to the side to move; a piece steps to a
\* neighbouring square that does not hold a piece of its own side.
Moves(g, sq) ==
  IF g.board[sq] # g.turn THEN {}
  ELSE {t \in Squares : (t = sq - 1 \/ t = sq + 1) /\ g.board[t] # g.turn}

\* game.moves(): all legal moves of the side to move.
AllMoves(g) == {m \in Squares \X Squares : m[2] \in Moves(g, m[1])}

IsCapture(g, m) == g.board[m[2]] # EMPTY

\* move.san of a legal move.
San(g, m) ==
  ToString(m[1]) \o (IF IsCapture(g, m) THEN "x" ELSE "-") \o ToString(m[2])

\* newGame.move(m) for a legal m: the position after the move.
ApplyMove(g, m) ==
  [board |-> [s \in Squares |->
                IF s = m[1] THEN EMPTY
                ELSE IF s = m[2] THEN g.board[m[1]]
                ELSE g.board[s]],
   turn |-> Other(g.turn),
   half |-> IF IsCapture(g, m) THEN 0 ELSE g.half + 1]

HasPiece(g, c) == \E s \in Squares : g.board[s] = c

\* The side to move has lost its piece: the stand-in for mate.
IsCheckmate(g) == ~HasPiece(g, g.turn)
IsStalemate(g) == HasPiece(g, g.turn) /\ AllMoves(g) = {}
IsInsufficientMaterial(g) == ~HasPiece(g, "w") /\ ~HasPiece(g, "b")
\* Every game object is new Chess() or new Chess(fen) plus one move, so it
\* never holds the three occurrences a repetition needs.
IsThreefoldRepetition(g) == FALSE
IsDraw(g) ==
  \/ g.half >= HalfMoveLimit
  \/ IsStalemate(g)
  \/ IsInsufficientMaterial(g)
  \/ IsThreefoldRepetition(g)
IsGameOver(g) == IsCheckmate(g) \/ IsStalemate(g) \/ IsDraw(g)

\* ---- messages ----
ErrNoColor == "Please select a color first"
ErrAnalyzing == "Please wait, calculating move..."
ErrGameOver == "Game is over"
ErrWrongTurn == "It is not the opponent's turn to move"
ErrNoPiece == "No piece at selected position"
ErrWrongPiece == "You can only move the opponent's pieces manually"
ErrIllegal == "Illegal move for this piece"
ErrInvalidManual == "Invalid manual move"
ErrInvalidAI == "Invalid AI move"
ErrCalc == "Error calculating move"

\* ---- state ----
VARIABLES
  game,              \* the live Chess object
  moveHistory,       \* notations of the applied moves
  currentPosition,   \* the displayed fen
  isAnalyzing,
  playerColor,       \* side played by the oracle, or NULL
  selectedSquare,
  possibleMoves,
  lastMove,
  errorMessage,
  currentMoveIndex,
  gameEndMessage,
  positions,         \* fens of the game
  inflight,          \* bag of the unresolved getBestMoveOnline calls: captured games
  lastOp             \* history variable: the handler that ran last

vars == <<game, moveHistory, currentPosition, isAnalyzing, playerColor,
          selectedSquare, possibleMoves, lastMove, errorMessage,
          currentMoveIndex, gameEndMessage, positions, inflight, lastOp>>

\* What the last handler did; issued tells whether the effect run that
\* followed it called getBestMoveOnline.
Op(name, res, issued) == [name |-> name, res |-> res, issued |-> issued]

autoColor == playerColor
manualColor == IF playerColor # NULL THEN Other(playerColor) ELSE NULL

Init ==
  /\ game = NewChess
  /\ moveHistory = <<>>
  /\ currentPosition = Fen(NewChess)
  /\ isAnalyzing = FALSE
  /\ playerColor = NULL
  /\ selectedSquare = NoSquare
  /\ possibleMoves = {}
  /\ lastMove = NULL
  /\ errorMessage = NULL
  /\ currentMoveIndex = -1
  /\ gameEndMessage = NULL
  /\ positions = <<>>
  /\ inflight = EmptyBag
  /\ lastOp = Op("init", "ok", FALSE)

\* ---- the auto-move effect ----

ShouldAutoMoveWrongSide(g, ac, an) ==
  /\ ac # NULL
  /\ Turn(g) # ac
  /\ ~IsGameOver(g)
  /\ ~an

\* The condition of makeAutoMove asking for a move whenever white is to move.
ShouldAutoMoveAssumesWhite(g, ac, an) ==
  /\ ac # NULL
  /\ Turn(g) = "w"
  /\ ~IsGameOver(g)
  /\ ~an

\* The condition of makeAutoMove together with the early return of
\* calculateAndPlayBestMove, on the values of the render the effect belongs to.
ShouldAutoMove(g, ac, an) ==
  /\ ac # NULL
  /\ Turn(g) = ac
  /\ ~IsGameOver(g)
  /\ ~an

\* The game-end message the effect sets.
EndMessage(g) ==
  IF IsGameOver(g) THEN
    IF IsCheckmate(g) THEN
      (IF Turn(g) = "w" THEN "Checkmate! Black wins!" ELSE "Checkmate! White wins!")
    ELSE IF IsDraw(g) THEN "It's a draw!"
    ELSE IF IsStalemate(g) THEN "Stalemate! Game is drawn!"
    ELSE IF IsThreefoldRepetition(g) THEN "Draw by repetition!"
    ELSE IF IsInsufficientMaterial(g) THEN "Draw by insufficient material!"
    ELSE ""
  ELSE NULL

\* The effect run after a commit with game g, autoColor ac, isAnalyzing an and
\* pending requests fl: when the oracle side is to move it sets isAnalyzing and
\* calls getBestMoveOnline with the game of that render.
Effect(g, ac, an, fl) ==
  /\ gameEndMessage' = EndMessage(g)
  /\ IF ShouldAutoMove(g, ac, an)
     THEN /\ BagCardinality(fl) < MaxOutstanding
          /\ isAnalyzing' = TRUE
          /\ inflight' = fl (+) SetToBag({g})
     ELSE /\ isAnalyzing' = an
          /\ inflight' = fl

\* ---- startNewGame ----

\* The history startNewGame installs.
NewGamePositionsEmpty == <<>>

NewGamePositions == <<Fen(NewChess)>>

\* The cursor startNewGame installs.
NewGameMoveIndex == -1

\* startNewGame without its setCurrentMoveIndex.
startNewGameKeepsCursor(color) ==
  /\ game' = NewChess
  /\ currentPosition' = Fen(NewChess)
  /\ moveHistory' = <<>>
  /\ positions' = NewGamePositions
  /\ playerColor' = color
  /\ selectedSquare' = NoSquare
  /\ possibleMoves' = {}
  /\ lastMove' = NULL
  /\ Effect(NewChess, color, FALSE, inflight)
  /\ lastOp' = Op("startNewGame", "ok", ShouldAutoMove(NewChess, color, FALSE))
  /\ UNCHANGED <<errorMessage, currentMoveIndex>>

startNewGame(color) ==
  /\ game' = NewChess
  /\ currentPosition' = Fen(NewChess)
  /\ moveHistory' = <<>>
  /\ positions' = NewGamePositions
  /\ playerColor' = color
  /\ selectedSquare' = NoSquare
  /\ possibleMoves' = {}
  /\ lastMove' = NULL
  /\ currentMoveIndex' = NewGameMoveIndex
  /\ Effect(NewChess, color, FALSE, inflight)
  /\ lastOp' = Op("startNewGame", "ok", ShouldAutoMove(NewChess, color, FALSE))
  /\ UNCHANGED errorMessage

\* ---- changeColor ----
changeColor ==
  /\ playerColor' = NULL
  /\ Effect(game, NULL, isAnalyzing, inflight)
  /\ lastOp' = Op("changeColor", "ok", FALSE)
  /\ UNCHANGED <<game, moveHistory, currentPosition, selectedSquare,
                 possibleMoves, lastMove, errorMessage, currentMoveIndex,
                 positions>>

\* ---- navigateMove ----
Min(a, b) == IF a < b THEN a ELSE b
Max(a, b) == IF a > b THEN a ELSE b

NewIndex(direction) ==
  IF direction = "forward"
  THEN Min(currentMoveIndex + 1, Len(positions) - 1)
  ELSE Max(currentMoveIndex - 1, 0)

\* navigateMove as a function of the cursor and the displayed position it is
\* called with (positions[i] of the source is positions[i + 1] here).
NavStep(st, direction) ==
  LET newIndex == IF direction = "forward"
                  THEN Min(st.index + 1, Len(positions) - 1)
                  ELSE Max(st.index - 1, 0)
  IN IF newIndex # st.index
     THEN [index |-> newIndex, position |-> positions[newIndex + 1]]
     ELSE st

\* navigateMove with the bug of loading the navigated position into the live
\* game.
navigateMoveLoadsGame(direction) ==
  /\ IF NewIndex(direction) # currentMoveIndex
     THEN /\ currentMoveIndex' = NewIndex(direction)
          /\ currentPosition' = positions[NewIndex(direction) + 1]
          /\ game' = Chess(positions[NewIndex(direction) + 1])
          /\ Effect(game', autoColor, isAnalyzing, inflight)
          /\ lastOp' = Op("navigateMove", "moved", isAnalyzing' # isAnalyzing)
     ELSE /\ UNCHANGED <<currentMoveIndex, currentPosition, game, isAnalyzing,
                         gameEndMessage, inflight>>
          /\ lastOp' = Op("navigateMove", "noop", FALSE)
  /\ UNCHANGED <<moveHistory, playerColor, selectedSquare, possibleMoves,
                 lastMove, errorMessage, positions>>

\* positions[i] of the source is positions[i + 1] here.
navigateMove(direction) ==
  /\ IF NewIndex(direction) # currentMoveIndex
     THEN /\ currentMoveIndex' = NewIndex(direction)
          /\ currentPosition' = positions[NewIndex(direction) + 1]
          /\ lastOp' = Op("navigateMove", "moved", FALSE)
     ELSE /\ UNCHANGED <<currentMoveIndex, currentPosition>>
          /\ lastOp' = Op("navigateMove", "noop", FALSE)
  /\ UNCHANGED <<game, moveHistory, isAnalyzing, playerColor, selectedSquare,
                 possibleMoves, lastMove, errorMessage, gameEndMessage,
                 positions, inflight>>

\* ---- manual moves ----

isValidManualMoveNoAnalyzingCheck ==
  IF playerColor = NULL THEN ErrNoColor
  ELSE IF IsGameOver(game) THEN ErrGameOver
  ELSE IF manualColor # NULL /\ Turn(game) # manualColor THEN ErrWrongTurn
  ELSE NULL

isValidManualMoveAnalyzingFirst ==
  IF isAnalyzing THEN ErrAnalyzing
  ELSE IF playerColor = NULL THEN ErrNoColor
  ELSE IF IsGameOver(game) THEN ErrGameOver
  ELSE IF manualColor # NULL /\ Turn(game) # manualColor THEN ErrWrongTurn
  ELSE NULL

\* isValidManualMove: NULL when it returns true, else the message it sets.
isValidManualMove ==
  IF playerColor = NULL THEN ErrNoColor
  ELSE IF isAnalyzing THEN ErrAnalyzing
  ELSE IF IsGameOver(game) THEN ErrGameOver
  ELSE IF manualColor # NULL /\ Turn(game) # manualColor THEN ErrWrongTurn
  ELSE NULL

validateManualMoveNoLegalityCheck(from, to) ==
  IF Get(game, from) = EMPTY THEN ErrNoPiece
  ELSE IF Get(game, from) # manualColor THEN ErrWrongPiece
  ELSE NULL

validateManualMoveNoColorCheck(from, to) ==
  IF Get(game, from) = EMPTY THEN ErrNoPiece
  ELSE IF to \notin Moves(game, from) THEN ErrIllegal
  ELSE NULL

\* validateManualMove: NULL when it returns true, else the message it sets
\* (from and to are always squares; manualColor is set once isValidManualMove
\* has passed).
validateManualMove(from, to) ==
  IF Get(game, from) = EMPTY THEN ErrNoPiece
  ELSE IF Get(game, from) # manualColor THEN ErrWrongPiece
  ELSE IF to \notin Moves(game, from) THEN ErrIllegal
  ELSE NULL

\* makeManualMove going on to the move after the eligibility gate alone.
ManualErrorEligibilityOnly(from, to) == isValidManualMove

\* The message with which makeManualMove(from, to) returns false, NULL when it
\* applies the move.
ManualError(from, to) ==
  IF isValidManualMove # NULL THEN isValidManualMove
  ELSE IF validateManualMove(from, to) # NULL THEN validateManualMove(from, to)
  ELSE IF <<from, to>> \notin AllMoves(Chess(Fen(game))) THEN ErrInvalidManual
  ELSE NULL

\* makeManualMove cutting the history at the cursor before it appends.
makeManualMoveTruncatesAtCursor(from, to) ==
  LET newGame == ApplyMove(Chess(Fen(game)), <<from, to>>) IN
  /\ ManualError(from, to) = NULL
  /\ game' = newGame
  /\ currentPosition' = Fen(newGame)
  /\ moveHistory' = Append(SubSeq(moveHistory, 1, currentMoveIndex),
                           San(game, <<from, to>>))
  /\ positions' = Append(SubSeq(positions, 1, currentMoveIndex + 1), Fen(newGame))
  /\ currentMoveIndex' = currentMoveIndex + 1
  /\ selectedSquare' = NoSquare
  /\ possibleMoves' = {}
  /\ errorMessage' = NULL
  /\ Effect(newGame, autoColor, isAnalyzing, inflight)
  /\ UNCHANGED <<playerColor, lastMove>>

\* makeManualMove recording the fen of the game before the move.
makeManualMoveAppendsOldFen(from, to) ==
  LET newGame == ApplyMove(Chess(Fen(game)), <<from, to>>) IN
  /\ ManualError(from, to) = NULL
  /\ game' = newGame
  /\ currentPosition' = Fen(newGame)
  /\ moveHistory' = Append(moveHistory, San(game, <<from, to>>))
  /\ positions' = Append(positions, Fen(game))
  /\ currentMoveIndex' = currentMoveIndex + 1
  /\ selectedSquare' = NoSquare
  /\ possibleMoves' = {}
  /\ errorMessage' = NULL
  /\ Effect(newGame, autoColor, isAnalyzing, inflight)
  /\ UNCHANGED <<playerColor, lastMove>>

\* makeManualMove leaving the selection as it is after the move.
makeManualMoveKeepsSelection(from, to) ==
  LET newGame == ApplyMove(Chess(Fen(game)), <<from, to>>) IN
  /\ ManualError(from, to) = NULL
  /\ game' = newGame
  /\ currentPosition' = Fen(newGame)
  /\ moveHistory' = Append(moveHistory, San(game, <<from, to>>))
  /\ positions' = Append(positions, Fen(newGame))
  /\ currentMoveIndex' = currentMoveIndex + 1
  /\ errorMessage' = NULL
  /\ Effect(newGame, autoColor, isAnalyzing, inflight)
  /\ UNCHANGED <<playerColor, lastMove, selectedSquare, possibleMoves>>

\* makeManualMove(from, to) returning true: the move is applied to a copy of
\* the live game, which becomes the live game.
makeManualMove(from, to) ==
  LET newGame == ApplyMove(Chess(Fen(game)), <<from, to>>) IN
  /\ ManualError(from, to) = NULL
  /\ game' = newGame
  /\ currentPosition' = Fen(newGame)
  /\ moveHistory' = Append(moveHistory, San(game, <<from, to>>))
  /\ positions' = Append(positions, Fen(newGame))
  /\ currentMoveIndex' = currentMoveIndex + 1
  /\ selectedSquare' = NoSquare
  /\ possibleMoves' = {}
  /\ errorMessage' = NULL
  /\ Effect(newGame, autoColor, isAnalyzing, inflight)
  /\ UNCHANGED <<playerColor, lastMove>>

\* What no rejected attempt touches.
SessionUnchanged ==
  UNCHANGED <<game, moveHistory, currentPosition, isAnalyzing, playerColor,
              lastMove, currentMoveIndex, gameEndMessage, positions, inflight>>

getMoveOptions(square) ==
  IF isValidManualMove # NULL THEN {} ELSE Moves(game, square)

onDrop(sourceSquare, targetSquare) ==
  IF ManualError(sourceSquare, targetSquare) = NULL
  THEN /\ makeManualMove(sourceSquare, targetSquare)
       /\ lastOp' = Op("onDrop", "applied", isAnalyzing')
  ELSE /\ errorMessage' = ManualError(sourceSquare, targetSquare)
       /\ UNCHANGED <<selectedSquare, possibleMoves>>
       /\ SessionUnchanged
       /\ lastOp' = Op("onDrop", "rejected", FALSE)

\* onSquareClick dropping the selection after every failed attempt.
onSquareClickNoReselect(square) ==
  IF isValidManualMove # NULL
  THEN /\ errorMessage' = isValidManualMove
       /\ selectedSquare' = NoSquare
       /\ possibleMoves' = {}
       /\ SessionUnchanged
       /\ lastOp' = Op("onSquareClick", "rejected", FALSE)
  ELSE IF selectedSquare # NoSquare
  THEN IF ManualError(selectedSquare, square) = NULL
       THEN /\ makeManualMove(selectedSquare, square)
            /\ lastOp' = Op("onSquareClick", "applied", isAnalyzing')
       ELSE /\ selectedSquare' = NoSquare
            /\ possibleMoves' = {}
            /\ errorMessage' = ManualError(selectedSquare, square)
            /\ SessionUnchanged
            /\ lastOp' = Op("onSquareClick", "rejected", FALSE)
  ELSE IF Get(game, square) = manualColor
       THEN /\ selectedSquare' = square
            /\ possibleMoves' = getMoveOptions(square)
            /\ errorMessage' = NULL
            /\ SessionUnchanged
            /\ lastOp' = Op("onSquareClick", "selected", FALSE)
       ELSE /\ UNCHANGED <<selectedSquare, possibleMoves, errorMessage>>
            /\ SessionUnchanged
            /\ lastOp' = Op("onSquareClick", "noop", FALSE)

onSquareClick(square) ==
  IF isValidManualMove # NULL
  THEN /\ errorMessage' = isValidManualMove
       /\ selectedSquare' = NoSquare
       /\ possibleMoves' = {}
       /\ SessionUnchanged
       /\ lastOp' = Op("onSquareClick", "rejected", FALSE)
  ELSE IF selectedSquare # NoSquare
  THEN IF ManualError(selectedSquare, square) = NULL
       THEN /\ makeManualMove(selectedSquare, square)
            /\ lastOp' = Op("onSquareClick", "applied", isAnalyzing')
       ELSE /\ IF Get(game, square) = manualColor
               THEN /\ selectedSquare' = square
                    /\ possibleMoves' = getMoveOptions(square)
                    /\ errorMessage' = NULL
               ELSE /\ selectedSquare' = NoSquare
                    /\ possibleMoves' = {}
                    /\ errorMessage' = ManualError(selectedSquare, square)
            /\ SessionUnchanged
            /\ lastOp' = Op("onSquareClick", "rejected", FALSE)
  ELSE IF Get(game, square) = manualColor
       THEN /\ selectedSquare' = square
            /\ possibleMoves' = getMoveOptions(square)
            /\ errorMessage' = NULL
            /\ SessionUnchanged
            /\ lastOp' = Op("onSquareClick", "selected", FALSE)
       ELSE /\ UNCHANGED <<selectedSquare, possibleMoves, errorMessage>>
            /\ SessionUnchanged
            /\ lastOp' = Op("onSquareClick", "noop", FALSE)

\* ---- resolution of an oracle request ----

\* What getBestMoveOnline can deliver for the captured game g: a legal move
\* of g, a text that is no legal move of g, or a rejected promise.
OracleOutcomes(g) == AllMoves(g) \cup {"illegal", "throw"}

\* resolveBestMove without the test of the move result: a text that is no
\* legal move leaves the copy of the captured game as it is, and the copy is
\* committed like an applied move.
resolveBestMoveCommitsIllegal(captured, outcome) ==
  LET rest == inflight (-) SetToBag({captured})
      newGame == IF outcome \in AllMoves(captured)
                 THEN ApplyMove(Chess(Fen(captured)), outcome)
                 ELSE Chess(Fen(captured))
      san == IF outcome \in AllMoves(captured)
             THEN San(captured, outcome) ELSE "undefined"
  IN
  /\ selectedSquare' = NoSquare
  /\ possibleMoves' = {}
  /\ UNCHANGED playerColor
  /\ IF outcome # "throw"
     THEN /\ game' = newGame
          /\ currentPosition' = Fen(newGame)
          /\ moveHistory' = Append(moveHistory, san)
          /\ positions' = Append(positions, Fen(newGame))
          /\ currentMoveIndex' = currentMoveIndex + 1
          /\ lastMove' = san
          /\ UNCHANGED errorMessage
          /\ Effect(newGame, autoColor, FALSE, rest)
          /\ lastOp' = Op("resolveBestMove",
                          IF outcome = "illegal" THEN "failed"
                          ELSE IF Fen(captured) = Fen(game) THEN "applied"
                          ELSE "appliedStale",
                          isAnalyzing')
     ELSE /\ errorMessage' = ErrCalc
          /\ UNCHANGED <<game, moveHistory, currentPosition, lastMove,
                         currentMoveIndex, positions>>
          /\ IF isAnalyzing
             THEN Effect(game, autoColor, FALSE, rest)
             ELSE /\ isAnalyzing' = FALSE
                  /\ inflight' = rest
                  /\ UNCHANGED gameEndMessage
          /\ lastOp' = Op("resolveBestMove", "failed", isAnalyzing')

\* resolveBestMove whose failure paths return without the finally block:
\* isAnalyzing and the selection stay as they are.
resolveBestMoveNoFinally(captured, outcome) ==
  LET rest == inflight (-) SetToBag({captured})
      newGame == ApplyMove(Chess(Fen(captured)), outcome)
  IN
  /\ UNCHANGED playerColor
  /\ IF outcome \in AllMoves(captured)
     THEN /\ selectedSquare' = NoSquare
          /\ possibleMoves' = {}
          /\ game' = newGame
          /\ currentPosition' = Fen(newGame)
          /\ moveHistory' = Append(moveHistory, San(captured, outcome))
          /\ positions' = Append(positions, Fen(newGame))
          /\ currentMoveIndex' = currentMoveIndex + 1
          /\ lastMove' = San(captured, outcome)
          /\ UNCHANGED errorMessage
          /\ Effect(newGame, autoColor, FALSE, rest)
          /\ lastOp' = Op("resolveBestMove",
                          IF Fen(captured) = Fen(game) THEN "applied" ELSE "appliedStale",
                          isAnalyzing')
     ELSE /\ errorMessage' = (IF outcome = "illegal" THEN ErrInvalidAI ELSE ErrCalc)
          /\ inflight' = rest
          /\ UNCHANGED <<game, moveHistory, currentPosition, lastMove,
                         currentMoveIndex, positions, isAnalyzing,
                         gameEndMessage, selectedSquare, possibleMoves>>
          /\ lastOp' = Op("resolveBestMove", "failed", FALSE)

\* The continuation of calculateAndPlayBestMove after the await, for an
\* unresolved call whose closure holds the game object captured (game in the
\* source is that object, not the live game).
resolveBestMove(captured, outcome) ==
  LET rest == inflight (-) SetToBag({captured})
      newGame == ApplyMove(Chess(Fen(captured)), outcome)
  IN
  /\ selectedSquare' = NoSquare
  /\ possibleMoves' = {}
  /\ UNCHANGED playerColor
  /\ IF outcome \in AllMoves(captured)
     THEN /\ game' = newGame
          /\ currentPosition' = Fen(newGame)
          /\ moveHistory' = Append(moveHistory, San(captured, outcome))
          /\ positions' = Append(positions, Fen(newGame))
          /\ currentMoveIndex' = currentMoveIndex + 1
          /\ lastMove' = San(captured, outcome)
          /\ UNCHANGED errorMessage
          /\ Effect(newGame, autoColor, FALSE, rest)
          /\ lastOp' = Op("resolveBestMove",
                          IF Fen(captured) = Fen(game) THEN "applied" ELSE "appliedStale",
                          isAnalyzing')
     ELSE /\ errorMessage' = (IF outcome = "illegal" THEN ErrInvalidAI ELSE ErrCalc)
          /\ UNCHANGED <<game, moveHistory, currentPosition, lastMove,
                         currentMoveIndex, positions>>
          /\ IF isAnalyzing
             THEN Effect(game, autoColor, FALSE, rest)
             ELSE /\ isAnalyzing' = FALSE
                  /\ inflight' = rest
                  /\ UNCHANGED gameEndMessage
          /\ lastOp' = Op("resolveBestMove", "failed", isAnalyzing')

\* ---- what the rendered page offers ----

\* The colour screen is rendered while playerColor is null, the board and the
\* side panel otherwise.
ColorScreen == playerColor = NULL
BoardRendered == playerColor # NULL

\* The navigation buttons of the side panel are disabled at the ends.
NavEnabled(direction) ==
  IF direction = "back"
  THEN ~(currentMoveIndex <= 0)
  ELSE ~(currentMoveIndex >= Len(positions) - 1)

\* A piece can be dragged from where the displayed position shows one.
Draggable(sq) == Chess(currentPosition).board[sq] # EMPTY

UserStartNewGame ==
  \E color \in {"w", "b"} :
    /\ ColorScreen \/ color = playerColor
    /\ startNewGame(color)

UserChangeColor == BoardRendered /\ changeColor

UserNavigate ==
  \E direction \in {"forward", "back"} :
    BoardRendered /\ NavEnabled(direction) /\ navigateMove(direction)

UserClick == \E square \in Squares : BoardRendered /\ onSquareClick(square)

UserDrop ==
  \E from \in Squares, to \in Squares :
    BoardRendered /\ Draggable(from) /\ from # to /\ onDrop(from, to)

OracleResolves ==
  \E captured \in BagToSet(inflight) :
    \E outcome \in OracleOutcomes(captured) : resolveBestMove(captured, outcome)

Next ==
  \/ UserStartNewGame
  \/ UserChangeColor
  \/ UserNavigate
  \/ UserClick
  \/ UserDrop
  \/ OracleResolves

Spec == Init /\ [][Next]_vars

\* ---- the handlers as commands ----

\* onSquareClick and onDrop are functions of App and can be invoked whatever
\* is rendered; this specification adds their invocation while the colour
\* screen is shown (playerColor null) to what the page offers.
CommandClick == \E square \in Squares : ~BoardRendered /\ onSquareClick(square)

CommandDrop ==
  \E from \in Squares, to \in Squares :
    ~BoardRendered /\ from # to /\ onDrop(from, to)

NextApi ==
  \/ Next
  \/ CommandClick
  \/ CommandDrop

SpecApi == Init /\ [][NextApi]_vars

\* ---- the Undo Move button ----

\* The side panel binds its Undo Move button to the undoLastManualMove prop,
\* and App renders the side panel without that prop: the button has no
\* handler and a click on it changes no state.
undoLastManualMove ==
  /\ lastOp' = Op("undoLastManualMove", "noop", FALSE)
  /\ UNCHANGED <<game, moveHistory, currentPosition, isAnalyzing, playerColor,
                 selectedSquare, possibleMoves, lastMove, errorMessage,
                 currentMoveIndex, gameEndMessage, positions, inflight>>

UserUndo == BoardRendered /\ undoLastManualMove

NextPanel ==
  \/ Next
  \/ UserUndo

SpecPanel == Init /\ [][NextPanel]_vars

\* ---- the game-end message on any position ----

\* The stand-in game reaches few positions; the rules engine can be handed
\* any: every placement of pieces, side to move and half-move clock.
AnyGame ==
  [board : [Squares -> {"w", "b", EMPTY}],
   turn : {"w", "b"},
   half : 0..HalfMoveLimit]

\* The committed state of a render whose game is g, before its effect ran.
InitStatus ==
  /\ game \in AnyGame
  /\ moveHistory = <<>>
  /\ currentPosition = Fen(game)
  /\ isAnalyzing = FALSE
  /\ playerColor \in {"w", "b"}
  /\ selectedSquare = NoSquare
  /\ possibleMoves = {}
  /\ lastMove = NULL
  /\ errorMessage = NULL
  /\ currentMoveIndex = -1
  /\ gameEndMessage = NULL
  /\ positions = <<Fen(game)>>
  /\ inflight = EmptyBag
  /\ lastOp = Op("init", "ok", FALSE)

\* The effect run of that render: the auto-move decision and the game-end
\* message.
EffectRun ==
  /\ lastOp.name = "init"
  /\ Effect(game, autoColor, isAnalyzing, inflight)
  /\ lastOp' = Op("effect", "ok", isAnalyzing')
  /\ UNCHANGED <<game, moveHistory, currentPosition, playerColor,
                 selectedSquare, possibleMoves, lastMove, errorMessage,
                 currentMoveIndex, positions>>

NextStatus == EffectRun

SpecStatus == InitStatus /\ [][NextStatus]_vars

\* ---- properties ----

Started == lastOp.name # "init"
Outstanding == BagCardinality(inflight)
ManualAttempt(op) == op.name \in {"onSquareClick", "onDrop"}
OracleSideToMove ==
  playerColor # NULL /\ Turn(game) = playerColor /\ ~IsGameOver(game)

\* C1: at most one oracle request is outstanding at any time.
C1_AtMostOneOutstanding == Outstanding <= 1

\* C2: a request that resolves when the live position is no longer the one it
\* was issued against is discarded: the live game, positions and moveHistory
\* stay as they are.
C2_StaleResponseDiscarded ==
  [][\A captured \in BagToSet(inflight) :
       \A outcome \in OracleOutcomes(captured) :
         (resolveBestMove(captured, outcome) /\ Fen(captured) # Fen(game))
           => (game' = game /\ positions' = positions /\ moveHistory' = moveHistory)]_vars

C4_HistoryParallel == Started => Len(moveHistory) = Len(positions) - 1

\* A request issued before startNewGame has resolved into the new game.
C4_Witness ==
  /\ lastOp.name = "resolveBestMove" /\ lastOp.res = "appliedStale"
  /\ Len(positions) >= 2 /\ Len(moveHistory) = Len(positions) - 1

\* C5: a manual attempt made while isAnalyzing is rejected with the
\* analysis-in-progress message and changes nothing of the session, the
\* pending requests included.
C5_RejectedWhileAnalyzing ==
  [][(isAnalyzing /\ ManualAttempt(lastOp'))
       => /\ lastOp'.res = "rejected"
          /\ errorMessage' = ErrAnalyzing
          /\ UNCHANGED <<game, positions, moveHistory, currentPosition,
                         currentMoveIndex, playerColor, isAnalyzing, inflight>>]_vars

C5_Witness ==
  /\ ManualAttempt(lastOp) /\ lastOp.res = "rejected"
  /\ isAnalyzing /\ errorMessage = ErrAnalyzing /\ Outstanding >= 1

\* C6: isAnalyzing is true exactly while one request is outstanding.
C6_AnalyzingIffOutstanding == isAnalyzing <=> (Outstanding = 1)

\* C7: in a started game the displayed position is positions[currentMoveIndex].
C7_DisplayedIsCursor ==
  Started => /\ currentMoveIndex + 1 \in DOMAIN positions
             /\ currentPosition = positions[currentMoveIndex + 1]

\* C8: in a started game 0 <= currentMoveIndex <= len(positions) - 1.
C8_CursorInRange ==
  Started => (0 <= currentMoveIndex /\ currentMoveIndex <= Len(positions) - 1)

\* C9: startNewGame leaves positions holding only the initial position, an
\* empty moveHistory and the cursor at 0.
C9_NewGameResets ==
  lastOp.name = "startNewGame"
    => /\ positions = <<Fen(NewChess)>>
       /\ moveHistory = <<>>
       /\ currentMoveIndex = 0

\* C10: an applied move appends one position and one notation and leaves the
\* cursor on the new last entry.
C10_AppliedMoveAppends ==
  [][lastOp'.res \in {"applied", "appliedStale"}
       => /\ Len(positions') = Len(positions) + 1
          /\ Len(moveHistory') = Len(moveHistory) + 1
          /\ currentMoveIndex' = Len(positions') - 1]_vars

\* C11: after startNewGame with the oracle playing white, once the oracle's
\* legal first move is applied the session has two positions, that move's
\* notation as the whole moveHistory, the cursor at 1, and the coordinator is
\* Idle with no request outstanding.
C11_OracleFirstMove ==
  (/\ lastOp.name = "resolveBestMove" /\ lastOp.res = "applied"
   /\ playerColor = "w" /\ Len(moveHistory) = 1)
    => /\ Len(positions) = 2
       /\ \E m \in AllMoves(NewChess) :
            /\ moveHistory = <<San(NewChess, m)>>
            /\ positions[2] = Fen(ApplyMove(NewChess, m))
       /\ currentMoveIndex = 1
       /\ ~isAnalyzing
       /\ Outstanding = 0

\* The last entry of the history, as a game.
LastPosition == Chess(positions[Len(positions)])

\* Whether a manual move from -> to is acceptable when judged on the last
\* entry of the history.
AcceptableOnLast(from, to) ==
  /\ playerColor # NULL /\ ~isAnalyzing
  /\ ~IsGameOver(LastPosition)
  /\ Turn(LastPosition) = Other(playerColor)
  /\ to \in Moves(LastPosition, from)

ManualOnLast(res, from, to) ==
  /\ (res = "applied") = AcceptableOnLast(from, to)
  /\ res = "applied"
       => positions' = Append(positions, Fen(ApplyMove(LastPosition, <<from, to>>)))

\* C12: whatever the cursor, manual eligibility and legality are judged on the
\* last entry of the history and manual and oracle moves are applied to it.
C12_LiveIsLast ==
  [][/\ \A from \in Squares, to \in Squares :
          onDrop(from, to) => ManualOnLast(lastOp'.res, from, to)
     /\ \A to \in Squares :
          (selectedSquare # NoSquare /\ isValidManualMove = NULL /\ onSquareClick(to))
            => ManualOnLast(lastOp'.res, selectedSquare, to)
     /\ \A captured \in BagToSet(inflight) :
          \A outcome \in AllMoves(captured) :
            resolveBestMove(captured, outcome)
              => positions' = Append(positions, Fen(ApplyMove(LastPosition, outcome)))]_vars

\* C13: navigateMove changes only the cursor and the displayed position and
\* issues no oracle request.
C13_NavigateFrame ==
  [][lastOp'.name = "navigateMove"
       => /\ UNCHANGED <<positions, moveHistory, game, playerColor, isAnalyzing,
                         inflight, selectedSquare, possibleMoves, lastMove>>
          /\ ~lastOp'.issued]_vars

\* The user stepped back from the live position while the manual side is to
\* move.
C13_Witness ==
  /\ lastOp.name = "navigateMove" /\ lastOp.res = "moved"
  /\ currentMoveIndex < Len(positions) - 1
  /\ currentPosition # Fen(game)

RECURSIVE NavTimes(_, _, _)
\* k calls of navigateMove in one direction.
NavTimes(st, direction, k) ==
  IF k = 0 THEN st ELSE NavTimes(NavStep(st, direction), direction, k - 1)

Displayed == [index |-> currentMoveIndex, position |-> currentPosition]

\* navigateMove computes what NavStep computes.
NavStepIsNavigateMove ==
  [][\A direction \in {"forward", "back"} :
       navigateMove(direction)
         => NavStep(Displayed, direction) =
              [index |-> currentMoveIndex', position |-> currentPosition']]_vars

\* C14: k steps forward then k steps back, or back then forward, all within
\* [0, len(positions) - 1], restore the cursor and the displayed position.
C14_NavRoundTrip ==
  Started =>
    \A k \in 1..MaxNavSteps :
      /\ (0 <= currentMoveIndex /\ currentMoveIndex + k <= Len(positions) - 1)
           => NavTimes(NavTimes(Displayed, "forward", k), "back", k) = Displayed
      /\ (currentMoveIndex - k >= 0 /\ currentMoveIndex <= Len(positions) - 1)
           => NavTimes(NavTimes(Displayed, "back", k), "forward", k) = Displayed

EligibilityErrors == {ErrNoColor, ErrAnalyzing, ErrGameOver, ErrWrongTurn}
LegalityErrors == {ErrNoPiece, ErrWrongPiece, ErrIllegal}

\* C15: a manual attempt fails with NoActiveGame if playerColor is unset, else
\* with AnalysisInProgress if isAnalyzing, else with GameOver if the live
\* position is terminal, else with WrongTurn if the manual side is not to
\* move; otherwise it reaches the legality phase.
C15_EligibilityPrecedence ==
  [][ManualAttempt(lastOp') =>
       /\ playerColor = NULL
            => (lastOp'.res = "rejected" /\ errorMessage' = ErrNoColor)
       /\ (playerColor # NULL /\ isAnalyzing)
            => (lastOp'.res = "rejected" /\ errorMessage' = ErrAnalyzing)
       /\ (playerColor # NULL /\ ~isAnalyzing /\ IsGameOver(game))
            => (lastOp'.res = "rejected" /\ errorMessage' = ErrGameOver)
       /\ (playerColor # NULL /\ ~isAnalyzing /\ ~IsGameOver(game)
             /\ Turn(game) = playerColor)
            => (lastOp'.res = "rejected" /\ errorMessage' = ErrWrongTurn)
       /\ (playerColor # NULL /\ ~isAnalyzing /\ ~IsGameOver(game)
             /\ Turn(game) # playerColor)
            => (lastOp'.res = "rejected"
                  => errorMessage' \in LegalityErrors \cup {NULL})]_vars

\* An attempt made with no side selected while a request is outstanding is
\* answered with NoActiveGame, not with AnalysisInProgress.
C15_Witness ==
  /\ ManualAttempt(lastOp) /\ lastOp.res = "rejected"
  /\ playerColor = NULL /\ isAnalyzing
  /\ errorMessage = ErrNoColor

\* The attempt passes the eligibility gate.
Eligible ==
  /\ playerColor # NULL /\ ~isAnalyzing
  /\ ~IsGameOver(game) /\ Turn(game) = Other(playerColor)

HistoryUnchanged == UNCHANGED <<positions, moveHistory, game>>

\* C16 as stated: an eligible manual move whose destination is not a legal
\* destination of its origin in the live position fails with IllegalMove and
\* leaves positions unchanged.
C16_AlwaysIllegalMove ==
  [][\A from \in Squares, to \in Squares :
       (Eligible /\ onDrop(from, to) /\ to \notin Moves(game, from))
         => /\ lastOp'.res = "rejected"
            /\ errorMessage' = ErrIllegal
            /\ positions' = positions]_vars

\* C16 amended: such a move always fails and leaves positions, moveHistory and
\* the live game unchanged; the error is IllegalMove when the attempt is
\* eligible and the origin holds a manual-side piece (a click on a manual-side
\* piece reselects and clears the error instead).
C16_IllegalDestinationRejected ==
  [][/\ \A from \in Squares, to \in Squares :
          (onDrop(from, to) /\ to \notin Moves(game, from))
            => /\ lastOp'.res = "rejected"
               /\ HistoryUnchanged
               /\ (Eligible /\ Get(game, from) = Other(playerColor))
                    => errorMessage' = ErrIllegal
     /\ \A to \in Squares :
          (/\ selectedSquare # NoSquare
           /\ onSquareClick(to)
           /\ to \notin Moves(game, selectedSquare))
            => /\ lastOp'.res = "rejected"
               /\ HistoryUnchanged
               /\ (Eligible /\ Get(game, selectedSquare) = Other(playerColor))
                    => errorMessage' = (IF Get(game, to) = Other(playerColor)
                                        THEN NULL ELSE ErrIllegal)]_vars

C16_Witness ==
  /\ lastOp.name = "onDrop" /\ lastOp.res = "rejected"
  /\ Eligible /\ errorMessage = ErrIllegal

\* C17: for an eligible attempt the legality errors come in the order
\* NoPieceAtSource, WrongPieceColor, IllegalMove; an attempt from a square
\* holding a piece of the oracle side fails with WrongPieceColor whatever the
\* destination, and positions is unchanged.
C17_LegalityOrder ==
  [][\A from \in Squares, to \in Squares :
       (/\ Eligible
        /\ \/ onDrop(from, to)
           \/ (selectedSquare = from /\ onSquareClick(to)
                 /\ Get(game, to) # Other(playerColor)))
         => /\ Get(game, from) = EMPTY
                 => (lastOp'.res = "rejected" /\ errorMessage' = ErrNoPiece
                       /\ HistoryUnchanged)
            /\ Get(game, from) = playerColor
                 => (lastOp'.res = "rejected" /\ errorMessage' = ErrWrongPiece
                       /\ HistoryUnchanged)
            /\ (Get(game, from) = Other(playerColor) /\ to \notin Moves(game, from))
                 => (lastOp'.res = "rejected" /\ errorMessage' = ErrIllegal
                       /\ HistoryUnchanged)
            /\ (Get(game, from) = Other(playerColor) /\ to \in Moves(game, from))
                 => lastOp'.res = "applied"]_vars

\* An eligible attempt to move the oracle side's piece was refused.
C17_Witness ==
  /\ lastOp.name = "onDrop" /\ lastOp.res = "rejected"
  /\ Eligible /\ errorMessage = ErrWrongPiece

\* An eligible attempt from a square that is empty in the live position.
C17_WitnessNoPiece ==
  /\ lastOp.name = "onDrop" /\ lastOp.res = "rejected"
  /\ Eligible /\ errorMessage = ErrNoPiece

C19_TerminalIsFinal ==
  [][(Started /\ IsGameOver(game) /\ lastOp'.name # "startNewGame")
       => /\ IsGameOver(game')
          /\ ~lastOp'.issued
          /\ ManualAttempt(lastOp')
               => (/\ lastOp'.res = "rejected"
                   /\ errorMessage' = ErrGameOver
                   /\ HistoryUnchanged)]_vars

\* C20: while playerColor is unset no step changes positions, moveHistory or
\* the live game.
C20_NoMoveWithoutSide ==
  [][(playerColor = NULL /\ playerColor' = NULL) => HistoryUnchanged]_vars

\* A manual attempt that ended in a refusal.
RejectedAttempt(op) == ManualAttempt(op) /\ op.res = "rejected"

\* C21: every rejected manual attempt, by click or by drop, leaves the
\* selection empty, except the click whose second square holds a manual-side
\* piece of an eligible attempt, which becomes the new selection.
C21_RejectedClearsSelection ==
  [][RejectedAttempt(lastOp')
       => \/ selectedSquare' = NoSquare /\ possibleMoves' = {}
          \/ /\ lastOp'.name = "onSquareClick"
             /\ Eligible /\ selectedSquare # NoSquare
             /\ selectedSquare' # NoSquare
             /\ Get(game, selectedSquare') = Other(playerColor)
             /\ possibleMoves' = Moves(game, selectedSquare')]_vars

\* The move from -> to is one the live position allows the manual side.
Acceptable(from, to) == Eligible /\ to \in Moves(game, from)

\* What the claim calls the session state, and the pending requests.
SessionKept ==
  /\ UNCHANGED <<positions, moveHistory, currentMoveIndex, game, playerColor,
                 isAnalyzing, inflight>>
  /\ ~lastOp'.issued

\* C22: a rejected manual attempt, whatever its eligibility or legality error,
\* leaves positions, moveHistory, currentMoveIndex, the live game, playerColor
\* and isAnalyzing as they were and issues no oracle request.
C22_RejectedKeepsSession ==
  [][/\ \A from \in Squares, to \in Squares :
          (onDrop(from, to) /\ ~Acceptable(from, to))
            => (lastOp'.res = "rejected" /\ SessionKept)
     /\ \A to \in Squares :
          (/\ onSquareClick(to)
           /\ \/ ~Eligible
              \/ selectedSquare # NoSquare /\ ~Acceptable(selectedSquare, to))
            => (lastOp'.res = "rejected" /\ SessionKept)]_vars

\* A legality error in a game that already has moves.
C22_Witness ==
  /\ RejectedAttempt(lastOp) /\ Eligible
  /\ errorMessage \in LegalityErrors
  /\ Len(positions) >= 2

\* s is t or t with one more entry at the end.
KeepsEntries(s, t) ==
  /\ Len(s) \in {Len(t), Len(t) + 1}
  /\ SubSeq(s, 1, Len(t)) = t

\* C23: within a game the history is append-only: positions starts with the
\* initial position, every entry of positions and moveHistory keeps its value
\* and index, and their length changes only by an applied move (+1) or by
\* startNewGame (reset).
C23_AppendOnly ==
  [][/\ lastOp'.name = "startNewGame"
          => (positions' = <<Fen(NewChess)>> /\ moveHistory' = <<>>)
     /\ lastOp'.name # "startNewGame"
          => /\ KeepsEntries(positions', positions)
             /\ KeepsEntries(moveHistory', moveHistory)
             /\ (Len(positions') # Len(positions) \/ Len(moveHistory') # Len(moveHistory))
                  => /\ Len(positions') = Len(positions) + 1
                     /\ Len(moveHistory') = Len(moveHistory) + 1
                     /\ lastOp'.res \in {"applied", "appliedStale"}
                     /\ ManualAttempt(lastOp') => Eligible
     /\ Len(positions') >= 1 => positions'[1] = Fen(NewChess)]_vars

\* A game with two applied moves whose first entries are still in place.
C23_Witness ==
  /\ lastOp.res \in {"applied", "appliedStale"}
  /\ Len(positions) >= 3 /\ Len(moveHistory) = Len(positions) - 1
  /\ positions[1] = Fen(NewChess)

\* The last entry of the history was produced by the manual move just made.
LastEntryManual == ManualAttempt(lastOp) /\ lastOp.res = "applied"

\* s without its last entry.
Front(s) == SubSeq(s, 1, Len(s) - 1)

\* C24: undo-last-manual-move removes the last entry of positions and of
\* moveHistory when that entry was produced by a manual move and no oracle
\* request is outstanding, and then re-evaluates whether the oracle side is to
\* move; with a request outstanding, with no move made, or with the oracle's
\* move as the last entry it changes nothing.
C24_UndoPopsManualMove ==
  [][undoLastManualMove =>
       /\ (LastEntryManual /\ Outstanding = 0)
            => /\ positions' = Front(positions)
               /\ moveHistory' = Front(moveHistory)
               /\ lastOp'.issued =
                    (/\ playerColor # NULL
                     /\ Turn(Chess(positions'[Len(positions')])) = playerColor
                     /\ ~IsGameOver(Chess(positions'[Len(positions')])))
       /\ (\/ Outstanding > 0
           \/ moveHistory = <<>>
           \/ lastOp.name = "resolveBestMove" /\ lastOp.res = "applied")
            => UNCHANGED <<positions, moveHistory, game>>]_vars

\* The step applied a move or started a game.
Mutation(op) == op.res \in {"applied", "appliedStale"} \/ op.name = "startNewGame"

\* Requests issued by the step: the growth of inflight, the request a
\* resolution consumed counted back in.
IssuedBy(op) ==
  Outstanding' - Outstanding + (IF op.name = "resolveBestMove" THEN 1 ELSE 0)

\* C25: when an applied move or startNewGame leaves the live position
\* non-terminal with the oracle side to move, the effect run that follows
\* issues one request for that live position and sets isAnalyzing; when it
\* does not, no request is issued; who made the last move plays no part.
C25_RequestFollowsPosition ==
  [][Mutation(lastOp')
       => /\ OracleSideToMove'
               => /\ isAnalyzing'
                  /\ BagIn(game', inflight')
                  /\ IssuedBy(lastOp') = 1
          /\ ~OracleSideToMove' => IssuedBy(lastOp') = 0]_vars

\* The oracle's own move left the oracle side to move (the side was changed
\* while the request was pending) and a request for the new live position was
\* issued.
C25_Witness ==
  /\ lastOp.name = "resolveBestMove"
  /\ lastOp.res \in {"applied", "appliedStale"}
  /\ OracleSideToMove /\ isAnalyzing /\ inflight = SetToBag({game})

\* A manual move left the oracle side to move and the request was issued.
C25_WitnessManual ==
  /\ ManualAttempt(lastOp) /\ lastOp.res = "applied"
  /\ OracleSideToMove /\ isAnalyzing /\ inflight = SetToBag({game})

OtherStep(op) == op.name \notin {"startNewGame", "resolveBestMove"}

\* C27 with the resolutions of other pending requests left aside: while
\* isAnalyzing is set every manual attempt is refused and positions is not
\* changed, and startNewGame clears isAnalyzing, after which the manual side
\* is eligible or a fresh request is issued.
StallWithoutOtherRequests ==
  [][/\ (isAnalyzing /\ OtherStep(lastOp'))
          => /\ Outstanding >= 1
             /\ HistoryUnchanged /\ isAnalyzing'
             /\ ManualAttempt(lastOp') => lastOp'.res = "rejected"
     /\ \A color \in {"w", "b"} :
          startNewGame(color)
            => IF color = Turn(NewChess)
               THEN /\ isAnalyzing'
                    /\ inflight' = inflight (+) SetToBag({NewChess})
               ELSE /\ ~isAnalyzing'
                    /\ inflight' = inflight
                    /\ Eligible']_vars

\* C27: while the request issued last stays unresolved (isAnalyzing set, the
\* request being the one for the live game), every manual attempt is refused
\* and no action changes positions until startNewGame; startNewGame clears
\* isAnalyzing, after which the manual side is eligible or a fresh request is
\* issued.
C27_StallUntilNewGame ==
  [][/\ (isAnalyzing /\ OtherStep(lastOp'))
          => /\ HistoryUnchanged
             /\ ManualAttempt(lastOp') => lastOp'.res = "rejected"
     /\ \A captured \in BagToSet(inflight) :
          \A outcome \in OracleOutcomes(captured) :
            (isAnalyzing /\ captured # game /\ resolveBestMove(captured, outcome))
              => HistoryUnchanged
     /\ \A color \in {"w", "b"} :
          startNewGame(color)
            => IF color = Turn(NewChess)
               THEN isAnalyzing' /\ BagIn(NewChess, inflight')
               ELSE ~isAnalyzing' /\ Eligible']_vars

Unselected == selectedSquare = NoSquare /\ possibleMoves = {}

\* C28: a click made while the eligibility gate fails ends Unselected; with no
\* selection a click on a manual-side piece selects it and any other click
\* stays Unselected; with a selection the click attempts the move from the
\* selected to the clicked square and ends Unselected on success,
\* Selected(clicked) when the attempt fails and the clicked square holds a
\* manual-side piece, and Unselected otherwise.
C28_ClickMachine ==
  [][\A sq \in Squares :
       onSquareClick(sq) =>
         IF ~Eligible THEN Unselected' /\ HistoryUnchanged
         ELSE IF selectedSquare = NoSquare
         THEN /\ HistoryUnchanged
              /\ IF Get(game, sq) = Other(playerColor)
                 THEN selectedSquare' = sq /\ possibleMoves' = Moves(game, sq)
                 ELSE Unselected'
         ELSE IF sq \in Moves(game, selectedSquare)
         THEN /\ Unselected'
              /\ game' = ApplyMove(game, <<selectedSquare, sq>>)
              /\ positions' = Append(positions, Fen(game'))
         ELSE /\ HistoryUnchanged
              /\ IF Get(game, sq) = Other(playerColor)
                 THEN selectedSquare' = sq /\ possibleMoves' = Moves(game, sq)
                 ELSE Unselected']_vars

\* The failed attempt ended on a manual-side piece, which is now selected.
C28_Witness ==
  /\ lastOp.name = "onSquareClick" /\ lastOp.res = "rejected"
  /\ Eligible /\ selectedSquare # NoSquare
  /\ Get(game, selectedSquare) = Other(playerColor)
  /\ possibleMoves = Moves(game, selectedSquare)

\* The second click completed the move.
C28_WitnessMoved ==
  /\ lastOp.name = "onSquareClick" /\ lastOp.res = "applied"
  /\ Unselected /\ Len(positions) >= 2

\* C29: navigateMove moves the cursor by one step in its direction, clamped
\* to [0, len(positions) - 1], showing the position under the new cursor, and
\* leaves currentMoveIndex and currentPosition unchanged for back at the
\* lowest cursor value, for forward at the highest, and for either right after
\* startNewGame (one position, nothing to step to).
C29_NavigateClamped ==
  [][\A direction \in {"forward", "back"} :
       navigateMove(direction)
         => /\ currentMoveIndex' \in 0..(Len(positions) - 1)
            /\ currentMoveIndex' - currentMoveIndex
                 \in (IF direction = "forward" THEN {0, 1} ELSE {0, -1})
            /\ currentMoveIndex' # currentMoveIndex
                 => currentPosition' = positions[currentMoveIndex' + 1]
            /\ (\/ direction = "back" /\ currentMoveIndex <= 0
                \/ direction = "forward" /\ currentMoveIndex >= Len(positions) - 1
                \/ lastOp.name = "startNewGame")
                 => UNCHANGED <<currentMoveIndex, currentPosition>>]_vars

\* C30: the status derived by the effect names the kind of ending: checkmate
\* with the winner opposite to the side to move, a draw with its reason
\* (stalemate, repetition, insufficient material, or the plain draw message
\* when none of them applies), and none while the game is in progress.
C30_StatusNamesEnding ==
  lastOp.name = "effect" =>
    IF IsCheckmate(game)
    THEN gameEndMessage = (IF Turn(game) = "w" THEN "Checkmate! Black wins!"
                           ELSE "Checkmate! White wins!")
    ELSE IF IsStalemate(game) THEN gameEndMessage = "Stalemate! Game is drawn!"
    ELSE IF IsThreefoldRepetition(game) THEN gameEndMessage = "Draw by repetition!"
    ELSE IF IsInsufficientMaterial(game)
    THEN gameEndMessage = "Draw by insufficient material!"
    ELSE IF IsDraw(game) THEN gameEndMessage = "It's a draw!"
    ELSE gameEndMessage = NULL

\* C31: in a started game the live game is the last entry of the history:
\* game.fen() = positions[len(positions) - 1].
C31_LiveGameIsLastEntry ==
  Started => /\ Len(positions) >= 1
             /\ Fen(game) = positions[Len(positions)]

\* A request issued against another position resolved into the present game.
C31_WitnessStale ==
  /\ lastOp.name = "resolveBestMove" /\ lastOp.res = "appliedStale"
  /\ Fen(game) = positions[Len(positions)]
  /\ currentPosition = Fen(game)

\* The user stepped back from a position the manual side produced.
C31_Witness ==
  /\ lastOp.name = "navigateMove" /\ lastOp.res = "moved"
  /\ Len(positions) >= 3
  /\ currentPosition # Fen(game)
  /\ Fen(game) = positions[Len(positions)]

\* Position q follows position p by one legal move whose notation is san.
LegalStep(p, q, san) ==
  \E m \in AllMoves(Chess(p)) :
    /\ q = Fen(ApplyMove(Chess(p), m))
    /\ san = San(Chess(p), m)

\* C32: the history is one legal line of play: each position follows the one
\* before it by one legal move, whose notation is the entry of moveHistory at
\* that index (so the side to move alternates along positions).
C32_OneLegalLine ==
  Started =>
    /\ Len(moveHistory) = Len(positions) - 1
    /\ \A i \in 1..(Len(positions) - 1) :
         /\ LegalStep(positions[i], positions[i + 1], moveHistory[i])
         /\ positions[i + 1][2] = Other(positions[i][2])

\* A game is in progress: a side has been chosen (the board is rendered).
GameInProgress == playerColor # NULL

\* C33: whenever a square is selected in a game in progress, it holds a
\* manual-side piece in the live position, the manual side is to move,
\* isAnalyzing is false and possibleMoves is exactly the set of legal
\* destinations of the selected square in the live position; every change of
\* the live game leaves the selection empty.
C33_SelectionFollowsLiveGame ==
  /\ [](selectedSquare # NoSquare
          => /\ selectedSquare \in Squares
             /\ Get(game, selectedSquare) = Turn(game)
             /\ ~isAnalyzing
             /\ possibleMoves = Moves(game, selectedSquare)
             /\ GameInProgress
                  => /\ Get(game, selectedSquare) = Other(playerColor)
                     /\ Turn(game) = Other(playerColor))
  /\ [][game' # game => (selectedSquare' = NoSquare /\ possibleMoves' = {})]_vars

\* A manual-side piece is selected while an earlier request is still pending.
C33_Witness ==
  /\ GameInProgress /\ selectedSquare # NoSquare
  /\ possibleMoves = Moves(game, selectedSquare) /\ possibleMoves # {}
  /\ Outstanding >= 1

\* C34: in every reachable state -1 <= currentMoveIndex <= len(positions) - 1.
C34_CursorBounds ==
  /\ -1 <= currentMoveIndex
  /\ currentMoveIndex <= Len(positions) - 1

\* A move was applied with the cursor already on the last entry: the cursor is
\* on the new last entry, the highest value the bound allows.
C34_Witness ==
  /\ lastOp.res \in {"applied", "appliedStale"}
  /\ Len(positions) >= 2
  /\ currentMoveIndex = Len(positions) - 1

\* A request issued before startNewGame resolved into the new game: the cursor
\* went from -1 to 0 with two positions.
C34_WitnessLate ==
  /\ lastOp.name = "resolveBestMove" /\ lastOp.res = "appliedStale"
  /\ Len(positions) = 2 /\ currentMoveIndex = 0
====
